---- MODULE Spec2Model ----
(***************************************************************************)
(* Model of the angle value type (angle/angle.go and the angle arithmetic  *)
(* file) and of the schedule option aggregate (schedule/option.go).        *)
(*                                                                         *)
(* float64 values are modelled as fixed-point integers: the float f is the *)
(* integer f * Scale, so one arcsecond of a degree is one unit.  Division  *)
(* truncates to that resolution.  +Inf, -Inf and NaN are three sentinel    *)
(* integers outside the finite range.                                      *)
(***************************************************************************)
EXTENDS Integers, Sequences, FiniteSets, TLC

\* ------------------------------------------------------------------------
\* Bounds of the model
\* ------------------------------------------------------------------------
MaxDeg == 2
MaxField == 2
MaxDiv == 2
MaxSteps == 6
MaxDate == 2

\* ------------------------------------------------------------------------
\* float64 as fixed point
\* ------------------------------------------------------------------------
Scale == 60 * 60
Fl(n) == n * Scale

PosInf == Scale * Scale * 60
NegInf == 0 - PosInf
NaN == PosInf + 1

IsFinite(f) == f > NegInf /\ f < PosInf

FAbs(f) == IF f < 0 THEN 0 - f ELSE f

\* x / d for a float x and a scalar d (IEEE: no trap on a zero divisor)
FDiv(x, d) ==
    IF d = 0
    THEN IF x = 0 THEN NaN ELSE IF x > 0 THEN PosInf ELSE NegInf
    ELSE IF (x < 0) = (d < 0)
         THEN FAbs(x) \div FAbs(d)
         ELSE 0 - (FAbs(x) \div FAbs(d))

\* math.Floor of a finite float
FFloor(f) == (f \div Scale) * Scale

\* consts package
TimeFormatConverter == Fl(60)
DecimalOne == Fl(1)
DecimalZero == Fl(0)

Decimal == "Decimal"
DegreeMinuteSecond == "DegreeMinuteSecond"

\* the Angle struct; a composite literal leaves unnamed fields zero
Angle(d, m, s, n, t) ==
    [degree |-> d, minute |-> m, second |-> s, neg |-> n, angType |-> t]

\* ------------------------------------------------------------------------
\* Angle helpers (representation and comparison)
\* ------------------------------------------------------------------------
Abs(a) == [a EXCEPT !.neg = FALSE]

Neg(a) == [a EXCEPT !.neg = ~a.neg]

ToDecimal(a) ==
    IF a.angType = Decimal
    THEN a
    ELSE Angle(a.degree + (a.minute \div 60) + (a.second \div Scale),
               DecimalZero, DecimalZero, a.neg, Decimal)

ToMinuteSecond(a) ==
    IF a.angType = DegreeMinuteSecond
    THEN a
    ELSE IF ~IsFinite(a.degree)
         THEN Angle(a.degree, NaN, NaN, a.neg, DegreeMinuteSecond)
         ELSE LET deg == FFloor(a.degree)
                  minF == (a.degree - deg) * 60
                  min == FFloor(minF)
                  sec == (minF - min) * 60
              IN  Angle(deg, min, sec, a.neg, DegreeMinuteSecond)

ToSpecificType(a, t) == IF t = Decimal THEN ToDecimal(a) ELSE ToMinuteSecond(a)

\* carries: seconds >= 60 roll into minutes, minutes >= 60 into degrees
prepareConvertMinuteSecond(a) ==
    LET min1 == a.minute + Fl(a.second \div TimeFormatConverter)
        sec1 == a.second % TimeFormatConverter
        deg1 == a.degree + Fl(min1 \div TimeFormatConverter)
        min2 == min1 % TimeFormatConverter
    IN  Angle(deg1, min2, sec1, a.neg, DegreeMinuteSecond)

\* magnitude comparison
GreatherThan(a, a1) == ToDecimal(a).degree > ToDecimal(a1).degree

IsZero(a) == ToDecimal(a).degree = DecimalZero

\* signed value in fixed-point units
Value(a) == IF a.neg THEN 0 - ToDecimal(a).degree ELSE ToDecimal(a).degree

\* ------------------------------------------------------------------------
\* Angle arithmetic.  A function body either returns an angle or ends in a
\* call of another arithmetic function, optionally followed by .Neg().
\* ------------------------------------------------------------------------
Return(v) == [kind |-> "return", fn |-> "none", a |-> v, a1 |-> v, neg |-> FALSE]

Invoke(f, a, a1, n) == [kind |-> "call", fn |-> f, a |-> a, a1 |-> a1, neg |-> n]

\* Angle.Sub
Sub(a, a1) == Invoke("subToMinuendType", a, a1, FALSE)

addToDecimalType(a, ang) ==
    LET b == IF ang.angType # Decimal THEN ToDecimal(ang) ELSE ang
    IN  Angle(a.degree + b.degree, DecimalZero, DecimalZero, FALSE, Decimal)

addToMinuteSecondType(a, ang) ==
    LET b == IF ang.angType # DegreeMinuteSecond THEN ToMinuteSecond(ang) ELSE ang
        second == a.second + b.second
        minute == a.minute + b.minute
        degree == a.degree + b.degree
    IN  prepareConvertMinuteSecond(
            Angle(degree, minute, second, FALSE, DegreeMinuteSecond))

addToAugendType(a, a1) ==
    IF a.neg /\ a1.neg
    THEN Invoke("addToAugendType", Abs(a), Abs(a1), TRUE)
    ELSE IF a.neg
    THEN Sub(ToSpecificType(a1, a.angType), Abs(a))
    ELSE IF a1.neg
    THEN Sub(a, Abs(a1))
    ELSE IF a.angType = Decimal
    THEN Return(addToDecimalType(a, a1))
    ELSE Return(addToMinuteSecondType(a, a1))

\* the recursion without exchanging the operands
subToDecimalType_NoSwap(a, a1) ==
    LET b == IF a1.angType # Decimal THEN ToDecimal(a1) ELSE a1
    IN  IF GreatherThan(b, a)
        THEN Invoke("subToDecimalType", a, b, TRUE)
        ELSE Return(Angle(FAbs(a.degree - b.degree), DecimalZero, DecimalZero,
                          FALSE, Decimal))

subToDecimalType(a, a1) ==
    LET b == IF a1.angType # Decimal THEN ToDecimal(a1) ELSE a1
    IN  IF GreatherThan(b, a)
        THEN Invoke("subToDecimalType", b, a, TRUE)
        ELSE Return(Angle(FAbs(a.degree - b.degree), DecimalZero, DecimalZero,
                          FALSE, Decimal))

takeForSub(value, upperValue) ==
    IF upperValue = DecimalZero
    THEN <<value, upperValue>>
    ELSE <<value + TimeFormatConverter, upperValue - DecimalOne>>

prepareMinuend(a, a1) ==
    LET t1 == IF a.second < a1.second
              THEN takeForSub(a.second, a.minute)
              ELSE <<a.second, a.minute>>
        second == t1[1]
        t2 == IF a.second < a1.second /\ second = a.second
              THEN takeForSub(t1[2], a.degree)
              ELSE <<t1[2], a.degree>>
        t3 == IF t2[1] < a1.minute
              THEN takeForSub(t2[1], t2[2])
              ELSE t2
    IN  Angle(t3[2], t3[1], second, FALSE, DegreeMinuteSecond)

subToMinuteSecondType(a, a1) ==
    LET b == IF a1.angType # DegreeMinuteSecond THEN ToMinuteSecond(a1) ELSE a1
        m == prepareMinuend(a, b)
    IN  IF GreatherThan(b, m)
        THEN Invoke("subToMinuteSecondType", b, m, TRUE)
        ELSE Return(prepareConvertMinuteSecond(
                 Angle(FAbs(m.degree - b.degree), FAbs(m.minute - b.minute),
                       FAbs(m.second - b.second), FALSE, DegreeMinuteSecond)))

subToMinuendType(a, a1) ==
    IF a.neg /\ a1.neg
    THEN Invoke("subToMinuendType", ToSpecificType(Abs(a1), a.angType), Abs(a1), FALSE)
    ELSE IF a.neg
    THEN Invoke("addToAugendType", Abs(a), Abs(a1), TRUE)
    ELSE IF a1.neg
    THEN Invoke("addToAugendType", Abs(a), Abs(a1), FALSE)
    ELSE IF a1.angType = Decimal
    THEN Invoke("subToDecimalType", a, a1, FALSE)
    ELSE Invoke("subToMinuteSecondType", a, a1, FALSE)

divToDividendType(a, d) ==
    LET angType == a.angType
        b == IF a.angType # Decimal THEN ToDecimal(a) ELSE a
        q == [b EXCEPT !.degree = FDiv(b.degree, d)]
    IN  ToSpecificType(q, angType)

\* ------------------------------------------------------------------------
\* State
\* ------------------------------------------------------------------------
VARIABLES
    op, x, y, dv,        \* the public call in progress: Add/Sub operands, Div divisor
    fn, fa, fa1,         \* arithmetic function now executing, receiver and argument
    stack,               \* one entry per pending caller: TRUE when it negates the result
    result, err,         \* returned angle and error outcome of the public call
    calls, swaps,        \* frames entered / operand swaps taken by the public call
    prev                 \* result of the same addition with the operands exchanged

arithVars == <<op, x, y, dv, fn, fa, fa1, stack, result, err, calls, swaps, prev>>

VARIABLES
    tpc,                 \* "idle", "text" (String returned) or "scanned"
    orig,                \* the angle String was called on
    text,                \* its canonical text, a sequence of runes
    parsed, perr         \* the fresh Angle after scanByString(text), and the error

textVars == <<tpc, orig, text, parsed, perr>>

VARIABLES
    dateStart, dateEnd,  \* days; 0 is the zero time.Time
    periodical,
    latitude, longitude,
    timezoneLoc,
    fajrZenith, ishaZenith, ishaZenithType,
    mazhab,              \* 0 when not set
    sunPositions,        \* the cached sun positions, <<>> when nil or empty
    lastCall,            \* the opt method called last
    salat, verr          \* argument and return value of the last ValidateBySalat

optVars == <<dateStart, dateEnd, periodical, latitude, longitude, timezoneLoc,
             fajrZenith, ishaZenith, ishaZenithType, mazhab, sunPositions,
             lastCall, salat, verr>>

vars == <<arithVars, textVars, optVars>>

ZeroAngle == Angle(DecimalZero, DecimalZero, DecimalZero, FALSE, Decimal)

FieldVals == {Fl((k * 25) % 60) : k \in 0..MaxField}

DMSAngles ==
    {Angle(Fl(d), m, s, n, DegreeMinuteSecond) :
        d \in 0..MaxDeg, m \in FieldVals, s \in FieldVals, n \in BOOLEAN}

DecimalAngles == {ToDecimal(a) : a \in DMSAngles}

Operands == DMSAngles \cup DecimalAngles

Divisors == ((0 - MaxDiv)..MaxDiv) \cup {15}

Idle == fn = "idle"

\* the result as seen by the public caller: every pending .Neg() applied
Unwind(v, st) ==
    IF Cardinality({i \in DOMAIN st : st[i]}) % 2 = 1 THEN Neg(v) ELSE v

\* the body of the executing function ended in configuration c
Enter(c) ==
    IF c.kind = "return"
    THEN /\ fn' = "done"
         /\ result' = Unwind(c.a, stack)
         /\ UNCHANGED <<fa, fa1, stack, calls>>
    ELSE /\ calls < MaxSteps
         /\ fn' = c.fn
         /\ fa' = c.a
         /\ fa1' = c.a1
         /\ stack' = Append(stack, c.neg)
         /\ calls' = calls + 1
         /\ UNCHANGED result

Begin(o, f, a, a1) ==
    /\ op' = o
    /\ x' = a
    /\ y' = a1
    /\ fn' = f
    /\ fa' = a
    /\ fa1' = a1
    /\ stack' = <<>>
    /\ calls' = 1
    /\ swaps' = 0
    /\ err' = "nil"
    /\ dv' = 1
    /\ result' = ZeroAngle
    /\ UNCHANGED <<textVars, optVars>>

ArithInit ==
    /\ op = "none"
    /\ x = ZeroAngle
    /\ y = ZeroAngle
    /\ dv = 1
    /\ fn = "idle"
    /\ fa = ZeroAngle
    /\ fa1 = ZeroAngle
    /\ stack = <<>>
    /\ result = ZeroAngle
    /\ err = "nil"
    /\ calls = 0
    /\ swaps = 0
    /\ prev = <<>>

\* Angle.Add(a1)
Add ==
    /\ Idle
    /\ \E a \in Operands, a1 \in Operands :
        /\ Begin("Add", "addToAugendType", a, a1)
        /\ prev' = <<>>

\* a1.Add(a) right after a.Add(a1), keeping the first sum
AddExchanged ==
    /\ fn = "done"
    /\ op = "Add"
    /\ prev = <<>>
    /\ Begin("Add", "addToAugendType", y, x)
    /\ prev' = <<result>>

\* Angle.Sub(a1)
SubCall ==
    /\ Idle
    /\ \E a \in Operands, a1 \in Operands :
        /\ Begin("Sub", "subToMinuendType", a, a1)
        /\ prev' = <<>>

\* Angle.Div(d)
Div ==
    /\ Idle
    /\ \E a \in Operands, d \in Divisors :
        /\ op' = "Div"
        /\ x' = a
        /\ dv' = d
        /\ fn' = "done"
        /\ result' = divToDividendType(a, d)
        /\ err' = "nil"
        /\ calls' = 1
        /\ swaps' = 0
        /\ stack' = <<>>
        /\ prev' = <<>>
        /\ y' = ZeroAngle
        /\ fa' = a
        /\ fa1' = ZeroAngle
        /\ UNCHANGED <<textVars, optVars>>

RunAddToAugendType ==
    /\ fn = "addToAugendType"
    /\ Enter(addToAugendType(fa, fa1))
    /\ UNCHANGED <<op, x, y, dv, err, swaps, prev, textVars, optVars>>

RunSubToMinuendType ==
    /\ fn = "subToMinuendType"
    /\ Enter(subToMinuendType(fa, fa1))
    /\ UNCHANGED <<op, x, y, dv, err, swaps, prev, textVars, optVars>>

RunSubToDecimalType ==
    /\ fn = "subToDecimalType"
    /\ Enter(subToDecimalType(fa, fa1))
    /\ swaps' = IF subToDecimalType(fa, fa1).kind = "call" THEN swaps + 1 ELSE swaps
    /\ UNCHANGED <<op, x, y, dv, err, prev, textVars, optVars>>

RunSubToMinuteSecondType ==
    /\ fn = "subToMinuteSecondType"
    /\ Enter(subToMinuteSecondType(fa, fa1))
    /\ swaps' = IF subToMinuteSecondType(fa, fa1).kind = "call" THEN swaps + 1 ELSE swaps
    /\ UNCHANGED <<op, x, y, dv, err, prev, textVars, optVars>>

\* the caller drops the returned angle; the next public call starts afresh
Release ==
    /\ fn = "done"
    /\ op' = "none"
    /\ x' = ZeroAngle
    /\ y' = ZeroAngle
    /\ dv' = 1
    /\ fn' = "idle"
    /\ fa' = ZeroAngle
    /\ fa1' = ZeroAngle
    /\ stack' = <<>>
    /\ result' = ZeroAngle
    /\ err' = "nil"
    /\ calls' = 0
    /\ swaps' = 0
    /\ prev' = <<>>
    /\ UNCHANGED <<textVars, optVars>>

ArithNext ==
    \/ Release
    \/ Add
    \/ AddExchanged
    \/ SubCall
    \/ Div
    \/ RunAddToAugendType
    \/ RunSubToMinuendType
    \/ RunSubToDecimalType
    \/ RunSubToMinuteSecondType

\* ------------------------------------------------------------------------
\* Canonical text: Angle.String and Angle.scanByString
\* ------------------------------------------------------------------------
DegreeSymbolRune == "°"
MinuteSymbolRune == "'"
SecondSymbolRune == "\""
NegativeSymbolRune == "-"

DigitRunes == <<"0", "1", "2", "3", "4", "5", "6", "7", "8", "9">>

DigitValue(r) == CHOOSE i \in 0..9 : DigitRunes[i + 1] = r

IsDigit(r) == \E i \in 1..10 : DigitRunes[i] = r

RECURSIVE NatRunes(_)
NatRunes(n) ==
    IF n < 10 THEN <<DigitRunes[n + 1]>>
    ELSE Append(NatRunes(n \div 10), DigitRunes[(n % 10) + 1])

\* strconv.FormatFloat(f, 'f', -1, 64) of a whole-valued float
FormatFloat(f) ==
    IF f < 0 THEN <<NegativeSymbolRune>> \o NatRunes((0 - f) \div Scale)
    ELSE NatRunes(f \div Scale)

RECURSIVE RunesNat(_)
RunesNat(rs) ==
    IF Len(rs) = 0 THEN 0
    ELSE RunesNat(SubSeq(rs, 1, Len(rs) - 1)) * 10 + DigitValue(rs[Len(rs)])

\* json.Unmarshal([]byte(src), &float64) for text made of digits and '-':
\* a JSON number is an optional '-' and digits without a leading zero
JSONNumber(src) ==
    LET body == IF Len(src) > 0 /\ src[1] = NegativeSymbolRune
                THEN SubSeq(src, 2, Len(src)) ELSE src
        ok == /\ Len(body) > 0
              /\ \A i \in 1..Len(body) : IsDigit(body[i])
              /\ (Len(body) > 1 => body[1] # "0")
    IN  IF ~ok THEN [err |-> "SyntaxError", val |-> DecimalZero]
        ELSE [err |-> "nil",
              val |-> IF Len(body) < Len(src) THEN 0 - Fl(RunesNat(body))
                      ELSE Fl(RunesNat(body))]

String(d) ==
    LET neg == IF d.neg THEN <<NegativeSymbolRune>> ELSE <<>>
    IN  IF d.angType = Decimal
        THEN neg \o FormatFloat(d.degree) \o <<DegreeSymbolRune>>
        ELSE neg \o FormatFloat(d.degree) \o <<DegreeSymbolRune>>
                 \o FormatFloat(d.minute) \o <<MinuteSymbolRune>>
                 \o FormatFloat(d.second) \o <<SecondSymbolRune>>

\* the receiver after the call, and the returned error
fillBySymbol(d, src, symbol) ==
    LET n == JSONNumber(src)
        d1 == IF symbol = DegreeSymbolRune THEN [d EXCEPT !.degree = n.val] ELSE d
        d2 == IF symbol = MinuteSymbolRune THEN [d1 EXCEPT !.minute = n.val] ELSE d1
    IN  IF n.err # "nil"
        THEN [ang |-> d, err |-> n.err]
        ELSE [ang |-> [d2 EXCEPT !.second = n.val], err |-> "nil"]

decideFillBySymbol(d, src, symbol) ==
    LET t == IF symbol = MinuteSymbolRune \/ symbol = SecondSymbolRune
             THEN DegreeMinuteSecond ELSE Decimal
    IN  fillBySymbol([d EXCEPT !.angType = t], src, symbol)

\* the range loop of scanByString from rune i on, with buffer buff and the
\* loop variable s holding the rune read last
RECURSIVE scanLoop(_, _, _, _, _)
scanLoop(d, src, i, buff, s) ==
    IF i > Len(src)
    THEN decideFillBySymbol(d, buff, s)
    ELSE LET r == src[i] IN
         IF r # DegreeSymbolRune /\ r # MinuteSymbolRune /\ r # SecondSymbolRune
         THEN scanLoop(d, src, i + 1, Append(buff, r), r)
         ELSE IF r = NegativeSymbolRune
         THEN scanLoop([d EXCEPT !.neg = TRUE], src, i + 1, buff, r)
         ELSE LET f == decideFillBySymbol(d, buff, r)
              IN  IF f.err # "nil" THEN f
                  ELSE scanLoop(f.ang, src, i + 1, buff, r)

scanByString(d, src) == scanLoop(d, src, 1, <<>>, "")

\* angles whose fields are whole numbers: the text of a whole-valued float
\* is its decimal digits
TextAngles ==
    DMSAngles \cup
    {Angle(Fl(d), DecimalZero, DecimalZero, n, Decimal) : d \in 0..(MaxDeg * 10), n \in BOOLEAN}

TextInit ==
    /\ tpc = "idle"
    /\ orig = ZeroAngle
    /\ text = <<>>
    /\ parsed = ZeroAngle
    /\ perr = "nil"

\* a.String()
Marshal ==
    /\ tpc = "idle"
    /\ \E a \in TextAngles :
        /\ orig' = a
        /\ text' = String(a)
    /\ tpc' = "text"
    /\ UNCHANGED <<parsed, perr, arithVars, optVars>>

\* scanByString(text) on a fresh Angle
Scan ==
    /\ tpc = "text"
    /\ LET r == scanByString(ZeroAngle, text)
       IN  /\ parsed' = r.ang
           /\ perr' = r.err
    /\ tpc' = "scanned"
    /\ UNCHANGED <<orig, text, arithVars, optVars>>

\* the parsed angle is dropped
Discard ==
    /\ tpc = "scanned"
    /\ tpc' = "idle"
    /\ orig' = ZeroAngle
    /\ text' = <<>>
    /\ parsed' = ZeroAngle
    /\ perr' = "nil"
    /\ UNCHANGED <<arithVars, optVars>>

TextNext == Marshal \/ Scan \/ Discard

\* ------------------------------------------------------------------------
\* schedule.opt
\* ------------------------------------------------------------------------
Dates == 1..MaxDate

\* periodicalEnum: a period of one day or of two days
Periodicals == {"Daily", "TwoDays"}

GetByDateRange(ds, de) == IF ds = de THEN "Daily" ELSE "TwoDays"

GetDateRange(p, ds) == IF p = "Daily" THEN <<ds, ds>> ELSE <<ds, ds + 1>>

\* sunPositions.NewFromDateRange: one entry per day of the range, computed
\* from the day, the location and the longitude
NewFromDateRange(ds, de, loc, lon) ==
    IF de < ds THEN <<>>
    ELSE [i \in 1..(de - ds + 1) |->
             [date |-> ds + i - 1, loc |-> loc, longitude |-> Value(lon)]]

\* a *time.Location: the nil pointer, time.UTC or a fixed zone
NilLocation == [name |-> <<"nil">>, offset |-> 0]

UTC == [name |-> <<"U", "T", "C">>, offset |-> 0]

OffsetTimezone == 3600

\* angle.NewDegreeFromFloat of a whole number
NewDegreeFromFloat(f) == Angle(Fl(FAbs(f)), DecimalZero, DecimalZero, f < 0, Decimal)

\* time.FixedZone(name, offset) as SetTimezoneOffset builds it
FixedZoneOf(timezoneOffset) ==
    LET angTime == NewDegreeFromFloat(timezoneOffset)
        negStr == IF angTime.neg THEN <<NegativeSymbolRune>> ELSE <<>>
        hours == Abs(angTime).degree \div Scale
    IN  [name |-> negStr \o <<DigitRunes[(hours \div 10) + 1],
                              DigitRunes[(hours % 10) + 1], "0", "0">>,
         offset |-> timezoneOffset * OffsetTimezone]

TimezoneOffsets == {7}

Locations == {UTC} \cup {FixedZoneOf(f) : f \in TimezoneOffsets}

Salats == {"Fajr", "Dhuhr", "Asr", "Maghrib", "Isha"}

Mazhabs == 1..2

OptAngleA == Angle(Fl(1), DecimalZero, DecimalZero, FALSE, Decimal)
OptAngleB == Angle(Fl(2), Fl(25), DecimalZero, FALSE, DegreeMinuteSecond)

Coordinates == {ZeroAngle, OptAngleA, OptAngleB}

Zeniths == {ZeroAngle, Angle(Fl(18), DecimalZero, DecimalZero, FALSE, Decimal)}

\* sunZenithEnum members: Fajr zenith, Isha zenith and the Isha zenith type
SunZeniths ==
    {[fajr |-> Angle(Fl(18), DecimalZero, DecimalZero, FALSE, Decimal),
      isha |-> Angle(Fl(18), DecimalZero, DecimalZero, FALSE, Decimal),
      type |-> "Standard"],
     [fajr |-> Angle(Fl(18), DecimalZero, DecimalZero, FALSE, Decimal),
      isha |-> Angle(Fl(90), DecimalZero, DecimalZero, FALSE, Decimal),
      type |-> "Time"]}

OptInit ==
    /\ dateStart = 0
    /\ dateEnd = 0
    /\ periodical = "none"
    /\ latitude = ZeroAngle
    /\ longitude = ZeroAngle
    /\ timezoneLoc = NilLocation
    /\ fajrZenith = ZeroAngle
    /\ ishaZenith = ZeroAngle
    /\ ishaZenithType = "none"
    /\ mazhab = 0
    /\ sunPositions = <<>>
    /\ lastCall = "New"
    /\ salat = "none"
    /\ verr = "nil"

SetDateRange(ds, de) ==
    /\ dateStart' = ds
    /\ dateEnd' = de
    /\ periodical' = GetByDateRange(ds, de)
    /\ sunPositions' = <<>>
    /\ UNCHANGED <<latitude, longitude, timezoneLoc, fajrZenith, ishaZenith,
                   ishaZenithType, mazhab, salat, verr>>

\* two readings of the clock, the second not before the first
SetNow ==
    \E n1 \in Dates, n2 \in Dates :
        /\ n1 <= n2
        /\ n2 <= n1 + 1
        /\ SetDateRange(n1, n2)

\* the setter without the reset of the cache
SetDatePeriodical_KeepCache(ds, p) ==
    /\ dateStart' = GetDateRange(p, ds)[1]
    /\ dateEnd' = GetDateRange(p, ds)[2]
    /\ periodical' = p
    /\ UNCHANGED <<latitude, longitude, timezoneLoc, fajrZenith, ishaZenith,
                   ishaZenithType, mazhab, salat, verr, sunPositions>>

SetDatePeriodical(ds, p) ==
    /\ dateStart' = GetDateRange(p, ds)[1]
    /\ dateEnd' = GetDateRange(p, ds)[2]
    /\ periodical' = p
    /\ sunPositions' = <<>>
    /\ UNCHANGED <<latitude, longitude, timezoneLoc, fajrZenith, ishaZenith,
                   ishaZenithType, mazhab, salat, verr>>

SetPeriodical(p) ==
    \E now \in Dates :
        SetDatePeriodical(IF dateStart = 0 THEN now ELSE dateStart, p)

SetLatitudeLongitude(lat, lon) ==
    /\ latitude' = lat
    /\ longitude' = lon
    /\ UNCHANGED <<dateStart, dateEnd, periodical, timezoneLoc, fajrZenith,
                   ishaZenith, ishaZenithType, mazhab, sunPositions, salat, verr>>

SetMazhab(m) ==
    /\ mazhab' = m
    /\ UNCHANGED <<dateStart, dateEnd, periodical, latitude, longitude,
                   timezoneLoc, fajrZenith, ishaZenith, ishaZenithType,
                   sunPositions, salat, verr>>

SetTimezoneOffset(timezoneOffset) ==
    /\ timezoneLoc' = FixedZoneOf(timezoneOffset)
    /\ UNCHANGED <<dateStart, dateEnd, periodical, latitude, longitude,
                   fajrZenith, ishaZenith, ishaZenithType, mazhab,
                   sunPositions, salat, verr>>

SetTimezone(timezone) ==
    /\ timezoneLoc' = timezone
    /\ UNCHANGED <<dateStart, dateEnd, periodical, latitude, longitude,
                   fajrZenith, ishaZenith, ishaZenithType, mazhab,
                   sunPositions, salat, verr>>

SetFajrIshaZenith(fz, iz) ==
    /\ fajrZenith' = fz
    /\ ishaZenith' = iz
    /\ ishaZenithType' = "Standard"
    /\ UNCHANGED <<dateStart, dateEnd, periodical, latitude, longitude,
                   timezoneLoc, mazhab, sunPositions, salat, verr>>

SetSunZenith(sunZenith) ==
    /\ fajrZenith' = sunZenith.fajr
    /\ ishaZenith' = sunZenith.isha
    /\ ishaZenithType' = sunZenith.type
    /\ UNCHANGED <<dateStart, dateEnd, periodical, latitude, longitude,
                   timezoneLoc, mazhab, sunPositions, salat, verr>>

\* the mazhab check without its salat condition
ValidateBySalatOutcome_AnySalat(s) ==
    LET lon == IF latitude.angType # longitude.angType
               THEN ToSpecificType(longitude, latitude.angType)
               ELSE longitude
        loc == IF timezoneLoc = NilLocation THEN UTC ELSE timezoneLoc
        early(e) == [err |-> e, longitude |-> longitude, timezoneLoc |-> timezoneLoc]
        late(e) == [err |-> e, longitude |-> lon, timezoneLoc |-> loc]
    IN  IF dateStart = 0 THEN early("ErrDateMissing")
        ELSE IF IsZero(latitude) THEN early("ErrLatitudeMissing")
        ELSE IF IsZero(longitude) THEN early("ErrLongitudeMissing")
        ELSE IF IsZero(fajrZenith) /\ s = "Fajr" THEN late("ErrFajrZenithMissing")
        ELSE IF IsZero(ishaZenith) /\ s = "Isha" THEN late("ErrIshaZenithMissing")
        ELSE IF mazhab = 0 THEN late("ErrMazhabMissing")
        ELSE late("nil")

\* the returned error, and longitude and timezoneLoc as the call leaves them
ValidateBySalatOutcome(s) ==
    LET lon == IF latitude.angType # longitude.angType
               THEN ToSpecificType(longitude, latitude.angType)
               ELSE longitude
        loc == IF timezoneLoc = NilLocation THEN UTC ELSE timezoneLoc
        early(e) == [err |-> e, longitude |-> longitude, timezoneLoc |-> timezoneLoc]
        late(e) == [err |-> e, longitude |-> lon, timezoneLoc |-> loc]
    IN  IF dateStart = 0 THEN early("ErrDateMissing")
        ELSE IF IsZero(latitude) THEN early("ErrLatitudeMissing")
        ELSE IF IsZero(longitude) THEN early("ErrLongitudeMissing")
        ELSE IF IsZero(fajrZenith) /\ s = "Fajr" THEN late("ErrFajrZenithMissing")
        ELSE IF IsZero(ishaZenith) /\ s = "Isha" THEN late("ErrIshaZenithMissing")
        ELSE IF mazhab = 0 /\ s = "Asr" THEN late("ErrMazhabMissing")
        ELSE late("nil")

ValidateBySalat(s) ==
    /\ salat' = s
    /\ verr' = ValidateBySalatOutcome(s).err
    /\ longitude' = ValidateBySalatOutcome(s).longitude
    /\ timezoneLoc' = ValidateBySalatOutcome(s).timezoneLoc
    /\ UNCHANGED <<dateStart, dateEnd, periodical, latitude, fajrZenith,
                   ishaZenith, ishaZenithType, mazhab, sunPositions>>

CalculateSunPositions ==
    /\ sunPositions' =
           IF Len(sunPositions) # 0
           THEN sunPositions
           ELSE NewFromDateRange(dateStart, dateEnd, timezoneLoc, longitude)
    /\ UNCHANGED <<dateStart, dateEnd, periodical, latitude, longitude,
                   timezoneLoc, fajrZenith, ishaZenith, ishaZenithType, mazhab,
                   salat, verr>>

GetSunPositions == sunPositions

\* the call of method m returned
Called(m) == lastCall' = m /\ UNCHANGED <<arithVars, textVars>>

DoSetDateRange ==
    \E ds \in 0..MaxDate, de \in 0..MaxDate :
        SetDateRange(ds, de) /\ Called("SetDateRange")

DoSetNow == SetNow /\ Called("SetNow")

DoSetDatePeriodical ==
    \E ds \in 0..MaxDate, p \in Periodicals :
        SetDatePeriodical(ds, p) /\ Called("SetDatePeriodical")

DoSetPeriodical ==
    \E p \in Periodicals : SetPeriodical(p) /\ Called("SetPeriodical")

DoSetLatitudeLongitude ==
    \E lat \in Coordinates, lon \in Coordinates :
        SetLatitudeLongitude(lat, lon) /\ Called("SetLatitudeLongitude")

DoSetMazhab == \E m \in Mazhabs : SetMazhab(m) /\ Called("SetMazhab")

DoSetTimezoneOffset ==
    \E f \in TimezoneOffsets : SetTimezoneOffset(f) /\ Called("SetTimezoneOffset")

DoSetTimezone ==
    \E loc \in Locations : SetTimezone(loc) /\ Called("SetTimezone")

DoSetFajrIshaZenith ==
    \E fz \in Zeniths, iz \in Zeniths :
        SetFajrIshaZenith(fz, iz) /\ Called("SetFajrIshaZenith")

DoSetSunZenith ==
    \E z \in SunZeniths : SetSunZenith(z) /\ Called("SetSunZenith")

DoValidateBySalat ==
    \E s \in Salats : ValidateBySalat(s) /\ Called("ValidateBySalat")

DoCalculateSunPositions ==
    CalculateSunPositions /\ Called("CalculateSunPositions")

\* the methods that write what ValidateBySalat reads; SetDateRange stands
\* for the date setters, which all end in the same assignment of dateStart
ValidateNext ==
    \/ DoSetDateRange
    \/ DoSetLatitudeLongitude
    \/ DoSetMazhab
    \/ DoSetFajrIshaZenith
    \/ DoSetSunZenith
    \/ DoValidateBySalat

\* the methods that write what CalculateSunPositions reads or caches
CacheNext ==
    \/ DoSetDateRange
    \/ DoSetNow
    \/ DoSetDatePeriodical
    \/ DoSetPeriodical
    \/ DoSetLatitudeLongitude
    \/ DoSetTimezoneOffset
    \/ DoSetTimezone
    \/ DoValidateBySalat
    \/ DoCalculateSunPositions

Init == ArithInit /\ TextInit /\ OptInit

SpecArith == Init /\ [][ArithNext]_vars

SpecText == Init /\ [][TextNext]_vars

SpecValidate == Init /\ [][ValidateNext]_vars

SpecCache == Init /\ [][CacheNext]_vars

\* ------------------------------------------------------------------------
\* Properties of the angle arithmetic
\* ------------------------------------------------------------------------
NonNegative(f) == f # NaN /\ f >= DecimalZero

\* a non-negative degree/minute/second angle with whole fields, minute and
\* second in [0,60)
PlainDMS(a) ==
    /\ a.angType = DegreeMinuteSecond
    /\ ~a.neg
    /\ a.degree >= DecimalZero /\ a.degree % Scale = 0
    /\ a.minute >= DecimalZero /\ a.minute < TimeFormatConverter /\ a.minute % Scale = 0
    /\ a.second >= DecimalZero /\ a.second < TimeFormatConverter /\ a.second % Scale = 0

Returned(o) == fn = "done" /\ op = o

\* C1: for non-negative degree/minute/second angles a and b, a.Sub(b) is
\* the exact sexagesimal difference: its signed value is value(a) - value(b)
\* (magnitude |arcsec(a) - arcsec(b)|, negative exactly when b > a).
C1_SubBorrowExact ==
    (Returned("Sub") /\ PlainDMS(x) /\ PlainDMS(y))
        => /\ ToDecimal(result).degree = FAbs(Value(x) - Value(y))
           /\ (result.neg <=> Value(y) > Value(x))

\* C2: for decimal angles a and b of any signs, a.Sub(b) denotes
\* value(a) - value(b).
C2_SubDecimalSigned ==
    (Returned("Sub") /\ x.angType = Decimal /\ y.angType = Decimal)
        => Value(result) = Value(x) - Value(y)

\* C3: a.Add(b) and b.Add(a) denote the same signed angle for every sign
\* and representation combination.
C3_AddCommutes ==
    (Returned("Add") /\ prev # <<>>) => Value(result) = Value(prev[1])

\* C4: dividing by 0 ends in a DivisionByZero error, dividing by a
\* non-zero scalar ends without error.
C4_DivByZeroFails ==
    Returned("Div") => (IF dv = 0 THEN err = "DivisionByZero" ELSE err = "nil")

\* C5: every angle returned by add, subtract or divide has non-negative
\* degree, minute and second fields.
C5_FieldsNonNegative ==
    fn = "done"
        => /\ NonNegative(result.degree)
           /\ NonNegative(result.minute)
           /\ NonNegative(result.second)

\* C9: every add and subtract call returns after a bounded number of
\* frames; the swap-and-negate recursion is taken at most once per call and
\* never for operands of equal magnitude.
C9_Terminates ==
    /\ calls < MaxSteps
    /\ swaps <= 1
    /\ (swaps >= 1 => ToDecimal(fa).degree # ToDecimal(fa1).degree)

C9_Witness ==
    /\ fn = "done"
    /\ op \in {"Add", "Sub"}
    /\ swaps = 1
    /\ calls = 4

\* C6: scanByString(a.String()) into a fresh Angle succeeds and yields a's
\* sign flag, representation and field values.
C6_ParseInvertsString ==
    tpc = "scanned" => (perr = "nil" /\ parsed = orig)

\* ------------------------------------------------------------------------
\* Properties of schedule.opt
\* ------------------------------------------------------------------------
\* C7: ValidateBySalat reports a missing date, latitude or longitude in
\* that order; with all three set it returns the Fajr-zenith error exactly
\* for Fajr with a zero Fajr zenith, the Isha-zenith error exactly for Isha
\* with a zero Isha zenith, the mazhab error exactly for Asr with no mazhab,
\* and nil otherwise.
C7_ValidateBySalat ==
    lastCall = "ValidateBySalat" =>
        /\ dateStart = 0 => verr = "ErrDateMissing"
        /\ (dateStart # 0 /\ IsZero(latitude)) => verr = "ErrLatitudeMissing"
        /\ (dateStart # 0 /\ ~IsZero(latitude) /\ IsZero(longitude))
               => verr = "ErrLongitudeMissing"
        /\ (dateStart # 0 /\ ~IsZero(latitude) /\ ~IsZero(longitude)) =>
               /\ verr = "ErrFajrZenithMissing"
                      <=> (salat = "Fajr" /\ IsZero(fajrZenith))
               /\ verr = "ErrIshaZenithMissing"
                      <=> (salat = "Isha" /\ IsZero(ishaZenith))
               /\ verr = "ErrMazhabMissing" <=> (salat = "Asr" /\ mazhab = 0)
               /\ verr = "nil"
                      <=> ~ \/ (salat = "Fajr" /\ IsZero(fajrZenith))
                            \/ (salat = "Isha" /\ IsZero(ishaZenith))
                            \/ (salat = "Asr" /\ mazhab = 0)

\* Dhuhr succeeds with no zenith and no mazhab configured
C7_Witness ==
    /\ lastCall = "ValidateBySalat"
    /\ salat = "Dhuhr"
    /\ verr = "nil"
    /\ IsZero(fajrZenith)
    /\ IsZero(ishaZenith)
    /\ mazhab = 0

DateSetters == {"SetDateRange", "SetNow", "SetDatePeriodical", "SetPeriodical"}

\* C8: after every date-affecting setter the cache is empty; the next
\* CalculateSunPositions fills it from the current dateStart and dateEnd; a
\* CalculateSunPositions on a non-empty cache leaves it unchanged.
C8_CacheInvalidation ==
    /\ [](lastCall \in DateSetters => sunPositions = <<>>)
    /\ [][lastCall' = "CalculateSunPositions" =>
            IF sunPositions # <<>>
            THEN sunPositions' = sunPositions
            ELSE sunPositions' =
                     NewFromDateRange(dateStart, dateEnd, timezoneLoc, longitude)]_vars

\* a date setter has returned, leaving a non-empty date range and no cache
C8_Witness ==
    /\ lastCall \in DateSetters
    /\ sunPositions = <<>>
    /\ dateStart # 0
    /\ dateEnd > dateStart

\* C10: right after CalculateSunPositions, GetSunPositions returns the
\* positions of the current dateStart, dateEnd, timezone and longitude.
C10_CacheCoherent ==
    lastCall = "CalculateSunPositions" =>
        GetSunPositions = NewFromDateRange(dateStart, dateEnd, timezoneLoc, longitude)

====
